---- MODULE Spec2Model ----
(***************************************************************************)
(* EduScript: the grammar-driven parser (src/parser/eduscript.pegjs) and   *)
(* the timeline evaluator calculateFrameState (src/services/renderer.ts),  *)
(* driven by the build handler of src/index.ts.                            *)
(*                                                                         *)
(* Numbers are JavaScript numbers; they are modelled as exact rationals    *)
(* [n, d] in lowest terms, with the three non-finite values the code can   *)
(* produce: NaN = [0, 0], Infinity = [1, 0], -Infinity = [-1, 0].          *)
(* An optional (possibly undefined) value v is <<v>>, undefined is <<>>.   *)
(***************************************************************************)
EXTENDS Integers, Sequences, FiniteSets, TLC

VARIABLES pc, scriptContent, ast, error, call, jobs, finished, clipPaths, files, heap, log

vars == <<pc, scriptContent, ast, error, call, jobs, finished, clipPaths, files, heap, log>>

\* what the scene jobs and the final export leave behind
buildVars == <<finished, clipPaths, files>>

(***************************************************************************)
(* Bounds of the explored scripts.                                         *)
(***************************************************************************)
MaxVisuals == 2
MaxEvents == 2
MaxAnims == 2
MaxProps == 3

\* scene blocks of a script
MaxScenes == 2

\* frame states a caller keeps
MaxCalls == 3

(***************************************************************************)
(* JavaScript number arithmetic.                                           *)
(***************************************************************************)
Abs(i) == IF i < 0 THEN -i ELSE i

Sign(i) == IF i < 0 THEN -1 ELSE IF i > 0 THEN 1 ELSE 0

RECURSIVE Gcd(_, _)
Gcd(a, b) == IF b = 0 THEN a ELSE Gcd(b, a % b)

Norm(n, d) ==
  IF d = 0 THEN [n |-> Sign(n), d |-> 0]
  ELSE LET g == Gcd(Abs(n), Abs(d))
       IN  [n |-> (Sign(d) * n) \div g, d |-> Abs(d) \div g]

Num(i) == [n |-> i, d |-> 1]

NaN == [n |-> 0, d |-> 0]

IsNaN(a) == a.n = 0 /\ a.d = 0

IsFinite(a) == a.d # 0

Neg(a) == [n |-> -a.n, d |-> a.d]

NumAdd(a, b) ==
  IF IsFinite(a) /\ IsFinite(b) THEN Norm(a.n * b.d + b.n * a.d, a.d * b.d)
  ELSE IF IsNaN(a) \/ IsNaN(b) THEN NaN
  ELSE IF IsFinite(b) THEN a
  ELSE IF IsFinite(a) THEN b
  ELSE IF a.n = b.n THEN a ELSE NaN

NumSub(a, b) == NumAdd(a, Neg(b))

NumDiv(a, b) ==
  IF IsNaN(a) \/ IsNaN(b) THEN NaN
  ELSE IF IsFinite(a) /\ IsFinite(b) THEN Norm(a.n * b.d, a.d * b.n)
  ELSE IF IsFinite(b) THEN [n |-> a.n * (IF b.n < 0 THEN -1 ELSE 1), d |-> 0]
  ELSE IF IsFinite(a) THEN Num(0)
  ELSE NaN

NumMul(a, b) ==
  IF IsNaN(a) \/ IsNaN(b) THEN NaN
  ELSE IF IsFinite(a) /\ IsFinite(b) THEN Norm(a.n * b.n, a.d * b.d)
  ELSE IF a.n = 0 \/ b.n = 0 THEN NaN
  ELSE [n |-> Sign(a.n) * Sign(b.n), d |-> 0]

\* Math.floor and Math.max
MathFloor(a) == IF IsFinite(a) THEN Num(a.n \div a.d) ELSE a

MathMax(a, b) ==
  IF IsNaN(a) \/ IsNaN(b) THEN NaN ELSE IF a.n * b.d >= b.n * a.d THEN a ELSE b

\* a <= b, a >= b, a > b, a === b on numbers: every comparison with NaN is false.
NumLe(a, b) == ~IsNaN(a) /\ ~IsNaN(b) /\ a.n * b.d <= b.n * a.d

NumGe(a, b) == NumLe(b, a)

NumGt(a, b) == ~IsNaN(a) /\ ~IsNaN(b) /\ a.n * b.d > b.n * a.d

NumEq(a, b) == ~IsNaN(a) /\ ~IsNaN(b) /\ a = b

(***************************************************************************)
(* Lexical primitives of the grammar.  A literal is the matched text:      *)
(* an optional minus sign, the digits before and after the point.          *)
(***************************************************************************)
RECURSIVE DigitsVal(_)
DigitsVal(ds) ==
  IF ds = <<>> THEN 0
  ELSE 10 * DigitsVal(SubSeq(ds, 1, Len(ds) - 1)) + ds[Len(ds)]

RECURSIVE Pow10(_)
Pow10(k) == IF k = 0 THEN 1 ELSE 10 * Pow10(k - 1)

\* Number = $( "-"? [0-9]+ ("." [0-9]+)? ) { return parseFloat(num); }
Number(lit) ==
  LET scale == Pow10(Len(lit.frac))
      mag   == DigitsVal(lit.int) * scale + DigitsVal(lit.frac)
  IN  Norm(IF lit.neg THEN -mag ELSE mag, scale)

\* Integer = digits:[0-9]+ { return parseInt(digits.join(""), 10); }
Integer(digits) == DigitsVal(digits)

\* DurationLiteral = val:Number "s" { return val; }
DurationLiteral(lit) == Number(lit)

\* StringLiteral = '"' chars:([^"]*) '"' { return chars.join(""); }
StringLiteral(chars) == chars

(***************************************************************************)
(* Grammar rules.  The input of a rule is the structure of the matched     *)
(* text; its value is what the rule's action returns.                      *)
(***************************************************************************)
IdProperty(txt) == StringLiteral(txt)

AtProperty(x, y) == [x |-> Number(x), y |-> Number(y)]

RadiusProperty(lit) == Number(lit)

DurationProperty(lit) == DurationLiteral(lit)

TextElement(e) ==
  [type |-> "text", content |-> <<StringLiteral(e.content)>>,
   id |-> IdProperty(e.id), at |-> AtProperty(e.x, e.y), radius |-> <<>>]

CircleElement(e) ==
  [type |-> "circle", content |-> <<>>,
   id |-> IdProperty(e.id), at |-> AtProperty(e.x, e.y),
   radius |-> <<RadiusProperty(e.radius[1])>>]

VisualElement(e) == IF e.type = "text" THEN TextElement(e) ELSE CircleElement(e)

FadeCommand(c) ==
  [type |-> "fade", target |-> StringLiteral(c.target),
   direction |-> c.direction, duration |-> DurationProperty(c.duration)]

AnimationCommand(c) == FadeCommand(c)

TimelineEvent(ev) ==
  [type |-> "at", time |-> DurationLiteral(ev.time),
   animations |-> [k \in 1..Len(ev.animations) |-> AnimationCommand(ev.animations[k])]]

\* The empty object {} that the reduce of SceneBlock starts from.
EmptyObject == [duration |-> <<>>, narration |-> <<>>, visuals |-> <<>>, timeline |-> <<>>]

Duration(p) == [EmptyObject EXCEPT !.duration = <<DurationLiteral(p.dur[1])>>]

Narration(p) == [EmptyObject EXCEPT !.narration = <<StringLiteral(p.text)>>]

VisualsBlock(p) ==
  [EmptyObject EXCEPT
     !.visuals = << [k \in 1..Len(p.elements) |-> VisualElement(p.elements[k])] >>]

TimelineBlock(p) ==
  [EmptyObject EXCEPT
     !.timeline = << [k \in 1..Len(p.events) |-> TimelineEvent(p.events[k])] >>]

\* SceneProperties = prop:(Duration / Narration / VisualsBlock / TimelineBlock) _
SceneProperties(p) ==
  IF p.kw = "duration" THEN Duration(p)
  ELSE IF p.kw = "narration" THEN Narration(p)
  ELSE IF p.kw = "visuals" THEN VisualsBlock(p)
  ELSE TimelineBlock(p)

\* Spread keeping the keys already present in acc
Spread_keepFirst(acc, prop) ==
  [f \in DOMAIN acc |-> IF acc[f] # <<>> THEN acc[f] ELSE prop[f]]

\* ({ ...acc, ...prop }): the keys of prop overwrite those of acc.
Spread(acc, prop) ==
  [f \in DOMAIN acc |-> IF prop[f] # <<>> THEN prop[f] ELSE acc[f]]

RECURSIVE Reduce(_, _)
Reduce(props, acc) ==
  IF props = <<>> THEN acc
  ELSE Reduce(Tail(props), Spread(acc, SceneProperties(Head(props))))

\* SceneBlock = "scene" _ title "{" _ props:SceneProperties+ _ "}"
SceneBlockMatches(b) == Len(b.props) >= 1

SceneBlock(b) ==
  LET scene == Reduce(b.props, EmptyObject)
  IN  [type |-> "Scene", title |-> StringLiteral(b.title),
       duration |-> scene.duration, narration |-> scene.narration,
       visuals |-> scene.visuals, timeline |-> scene.timeline]

Dimensions(v) == [width |-> Integer(v.w), height |-> Integer(v.h)]

VideoProperties(v) == [dimensions |-> Dimensions(v)]

VideoBlock(v) == [type |-> "Video", dimensions |-> VideoProperties(v).dimensions]

NoVideo == [type |-> "none", dimensions |-> [width |-> 0, height |-> 0]]

\* Program = _ video:VideoBlock _ scenes:SceneBlock+ _ ; parse throws on a mismatch.
ProgramMatches(s) ==
  /\ Len(s.scenes) >= 1
  /\ \A k \in 1..Len(s.scenes) : SceneBlockMatches(s.scenes[k])

\* Program listing the scene blocks in reverse
Program_reversed(s) ==
  [type |-> "Program", video |-> VideoBlock(s.video),
   scenes |-> [k \in 1..Len(s.scenes) |-> SceneBlock(s.scenes[Len(s.scenes) + 1 - k])]]

Program(s) ==
  [type |-> "Program", video |-> VideoBlock(s.video),
   scenes |-> [k \in 1..Len(s.scenes) |-> SceneBlock(s.scenes[k])]]

SyntaxError == [type |-> "SyntaxError", video |-> NoVideo, scenes |-> <<>>]

parse(s) == IF ProgramMatches(s) THEN Program(s) ELSE SyntaxError

\* where the text stops matching, counted in scene blocks: the first scene block
\* without a property, or the end of the input when no scene block follows the video
FirstMismatch(s) ==
  IF \E k \in 1..Len(s.scenes) : ~SceneBlockMatches(s.scenes[k])
  THEN CHOOSE k \in 1..Len(s.scenes) :
         /\ ~SceneBlockMatches(s.scenes[k])
         /\ \A j \in 1..(k - 1) : SceneBlockMatches(s.scenes[j])
  ELSE Len(s.scenes) + 1

\* the error a failed parse throws
ParserError(s) ==
  [message |-> "Expected", location |-> [start |-> FirstMismatch(s), end |-> FirstMismatch(s)]]

NoError == [message |-> "", location |-> [start |-> 0, end |-> 0]]

(***************************************************************************)
(* calculateFrameState (src/services/renderer.ts).                         *)
(***************************************************************************)
\* InitialState with the two coordinates of the anchor exchanged
InitialState_swapped(element) ==
  [id |-> element.id, type |-> element.type, opacity |-> Num(1),
   content |-> element.content, radius |-> element.radius,
   x |-> element.at.y, y |-> element.at.x]

\* step 1: the ElementState pushed for one visual element
InitialState(element) ==
  [id |-> element.id, type |-> element.type, opacity |-> Num(1),
   content |-> element.content, radius |-> element.radius,
   x |-> element.at.x, y |-> element.at.y]

\* Find falling back to the first element when no id matches
Find_fallback(frameState, target) ==
  IF \E k \in 1..Len(frameState) : frameState[k].id = target
  THEN CHOOSE k \in 1..Len(frameState) :
         /\ frameState[k].id = target
         /\ \A j \in 1..(k - 1) : frameState[j].id # target
  ELSE IF frameState # <<>> THEN 1 ELSE 0

\* Find returning the last element with the id instead of the first
Find_last(frameState, target) ==
  IF \E k \in 1..Len(frameState) : frameState[k].id = target
  THEN CHOOSE k \in 1..Len(frameState) :
         /\ frameState[k].id = target
         /\ \A j \in (k + 1)..Len(frameState) : frameState[j].id # target
  ELSE 0

\* frameState.find(el => el.id === anim.target): index of the first match, 0 if none
Find(frameState, target) ==
  IF \E k \in 1..Len(frameState) : frameState[k].id = target
  THEN CHOOSE k \in 1..Len(frameState) :
         /\ frameState[k].id = target
         /\ \A j \in 1..(k - 1) : frameState[j].id # target
  ELSE 0

InstantOut(anim) == anim.direction = "out" /\ NumEq(anim.duration, Num(0))

\* Started with > in place of >=
Started_strict(timeS, animStartTime) == NumGt(timeS, animStartTime)

Started(timeS, animStartTime) == NumGe(timeS, animStartTime)

\* Active without the test that the animation has started
Active_unstarted(timeS, animStartTime, animEndTime) == NumLe(timeS, animEndTime)

\* Active with < animEndTime in place of <= animEndTime
Active_open(timeS, animStartTime, animEndTime) ==
  NumGe(timeS, animStartTime) /\ NumGt(animEndTime, timeS)

Active(timeS, animStartTime, animEndTime) ==
  NumGe(timeS, animStartTime) /\ NumLe(timeS, animEndTime)

Finished(timeS, animEndTime) == NumGt(timeS, animEndTime)

\* ActiveOpacity with the elapsed time not divided by the duration
ActiveOpacity_undivided(anim, timeS, animStartTime) ==
  LET progress == NumSub(timeS, animStartTime)
  IN  IF anim.direction = "in" THEN progress ELSE NumSub(Num(1), progress)

ActiveOpacity(anim, timeS, animStartTime) ==
  LET progress == NumDiv(NumSub(timeS, animStartTime), anim.duration)
  IN  IF anim.direction = "in" THEN progress ELSE NumSub(Num(1), progress)

FinalOpacity(anim) == IF anim.direction = "in" THEN Num(1) ELSE Num(0)

\* ApplyFade writing every element that has the target id
ApplyFade_everyMatch(frameState, event, anim, timeS) ==
  LET target == Find(frameState, anim.target)
      animStartTime == event.time
      animDuration == anim.duration
      animEndTime == NumAdd(animStartTime, animDuration)
      write(v) == [k \in 1..Len(frameState) |->
                     IF frameState[k].id = anim.target
                     THEN [frameState[k] EXCEPT !.opacity = v] ELSE frameState[k]]
  IN  IF target = 0 THEN frameState
      ELSE IF InstantOut(anim)
        THEN IF Started(timeS, animStartTime) THEN write(Num(0)) ELSE frameState
      ELSE IF Active(timeS, animStartTime, animEndTime)
        THEN write(ActiveOpacity(anim, timeS, animStartTime))
      ELSE IF Finished(timeS, animEndTime)
        THEN write(FinalOpacity(anim))
      ELSE frameState

\* the body of the inner loop for one fade command
ApplyFade(frameState, event, anim, timeS) ==
  LET target == Find(frameState, anim.target)
      animStartTime == event.time
      animDuration == anim.duration
      animEndTime == NumAdd(animStartTime, animDuration)
  IN  IF target = 0 THEN frameState
      ELSE IF InstantOut(anim)
        THEN IF Started(timeS, animStartTime)
             THEN [frameState EXCEPT ![target].opacity = Num(0)]
             ELSE frameState
      ELSE IF Active(timeS, animStartTime, animEndTime)
        THEN [frameState EXCEPT ![target].opacity = ActiveOpacity(anim, timeS, animStartTime)]
      ELSE IF Finished(timeS, animEndTime)
        THEN [frameState EXCEPT ![target].opacity = FinalOpacity(anim)]
      ELSE frameState

RECURSIVE ApplyAnimations(_, _, _, _)
ApplyAnimations(frameState, event, anims, timeS) ==
  IF anims = <<>> THEN frameState
  ELSE ApplyAnimations(
         IF Head(anims).type = "fade"
         THEN ApplyFade(frameState, event, Head(anims), timeS) ELSE frameState,
         event, Tail(anims), timeS)

\* ApplyTimeline iterating the events from the last declared to the first
RECURSIVE ApplyTimeline_reversed(_, _, _)
ApplyTimeline_reversed(frameState, events, timeS) ==
  IF events = <<>> THEN frameState
  ELSE ApplyAnimations(ApplyTimeline_reversed(frameState, Tail(events), timeS),
                       Head(events), Head(events).animations, timeS)

RECURSIVE ApplyTimeline(_, _, _)
ApplyTimeline(frameState, events, timeS) ==
  IF events = <<>> THEN frameState
  ELSE ApplyTimeline(
         IF Head(events).type = "at"
         THEN ApplyAnimations(frameState, Head(events), Head(events).animations, timeS)
         ELSE frameState,
         Tail(events), timeS)

\* TimeS without the conversion from milliseconds
TimeS_ms(timeMs) == Num(timeMs)

TimeS(timeMs) == NumDiv(Num(timeMs), Num(1000))

Returned(frameState) == [status |-> "return", frame |-> frameState]

\* `for (const x of undefined)` raises a TypeError
Threw == [status |-> "throw", frame |-> <<>>]

calculateFrameState(scene, timeMs) ==
  IF scene.visuals = <<>> THEN Threw
  ELSE IF scene.timeline = <<>> THEN Threw
  ELSE LET visuals == scene.visuals[1]
           initial == [k \in 1..Len(visuals) |-> InitialState(visuals[k])]
       IN  Returned(ApplyTimeline(initial, scene.timeline[1], TimeS(timeMs)))

\* SceneAfter for an evaluator that empties the timeline it iterates
SceneAfter_consumed(scene, timeMs) ==
  IF scene.timeline = <<>> THEN scene ELSE [scene EXCEPT !.timeline = << <<>> >>]

\* the scene as a call leaves it: the function reads scene.visuals and scene.timeline
\* and assigns only to the opacity of the objects it has pushed to frameState
SceneAfter(scene, timeMs) == scene

(***************************************************************************)
(* The scripts explored: the text of a script is given by its structure    *)
(* (blocks, properties, literals), the way the grammar sees it.            *)
(***************************************************************************)
SeqUpTo(S, n) == UNION {[1..k -> S] : k \in 0..n}

Lit(neg, int, frac) == [neg |-> neg, int |-> int, frac |-> frac]

Lit0 == Lit(FALSE, <<0>>, <<>>)

Lit1 == Lit(FALSE, <<1>>, <<>>)

Lit2 == Lit(FALSE, <<2>>, <<>>)

Lit5 == Lit(FALSE, <<5>>, <<>>)

Lit1p5 == Lit(FALSE, <<1>>, <<5>>)

LitMinus1 == Lit(TRUE, <<1>>, <<>>)

\* circle(id: "c", at: (0, 0), radius: 1.5)
CircleC == [type |-> "circle", content |-> "", id |-> "c", x |-> Lit0, y |-> Lit0,
            radius |-> <<Lit1p5>>]

\* text("hi", id: "c", at: (1, -1)): a second element with the id "c"
TextC == [type |-> "text", content |-> "hi", id |-> "c", x |-> Lit1, y |-> LitMinus1,
          radius |-> <<>>]

\* text("yo", id: "d", at: (-1, 2))
TextD == [type |-> "text", content |-> "yo", id |-> "d", x |-> LitMinus1, y |-> Lit2,
          radius |-> <<>>]

ElementTexts == {CircleC, TextC, TextD}

\* every fade of "c" with a duration of 0s or 1s
FadeCTexts == [target : {"c"}, direction : {"in", "out"}, duration : {Lit0, Lit1}]

\* fade("d", out, duration: 2s)
FadeD == [target |-> "d", direction |-> "out", duration |-> Lit2]

FadeTexts == FadeCTexts \cup {FadeD}

EventTimes == {Lit0, Lit1, Lit2}

\* timelines of up to MaxEvents events, each with one fade of "c"
EventSequences == SeqUpTo([time : EventTimes, animations : {<<f>> : f \in FadeCTexts}], MaxEvents)

\* timelines of one event with two to MaxAnims fades, or with none
SingleEvents ==
  {<<ev>> : ev \in [time : EventTimes,
                    animations : SeqUpTo(FadeTexts, MaxAnims) \ {<<f>> : f \in FadeTexts}]}

TimelineTexts == EventSequences \cup SingleEvents

\* at(0s) { fade("c", out, duration: 0s) fade("d", out, duration: 2s) }
HideBoth ==
  [time |-> Lit0,
   animations |-> << [target |-> "c", direction |-> "out", duration |-> Lit0], FadeD >>]

\* the visuals blocks the timelines above are combined with: "c" alone, "d" and "c",
\* and two elements that share the id "c"
LessonVisuals == {<<CircleC>>, <<TextD, CircleC>>, <<TextC, CircleC>>}

VisualsTexts == SeqUpTo(ElementTexts, MaxVisuals)

DurationText(lit) ==
  [kw |-> "duration", dur |-> <<lit>>, text |-> "", elements |-> <<>>, events |-> <<>>]

NarrationText(str) ==
  [kw |-> "narration", dur |-> <<>>, text |-> str, elements |-> <<>>, events |-> <<>>]

VisualsText(elements) ==
  [kw |-> "visuals", dur |-> <<>>, text |-> "", elements |-> elements, events |-> <<>>]

TimelineText(events) ==
  [kw |-> "timeline", dur |-> <<>>, text |-> "", elements |-> <<>>, events |-> events]

\* video { dimensions: (1280, 720) }
VideoText == [w |-> <<1, 2, 8, 0>>, h |-> <<7, 2, 0>>]

OneScene(title, props) ==
  [video |-> VideoText, scenes |-> << [title |-> title, props |-> props] >>]

Lesson(v, tl) ==
  OneScene("Introduction", <<DurationText(Lit5), VisualsText(v), TimelineText(tl)>>)

\* scripts laid out like examples/lesson.eduscript: every timeline over a few visuals
\* blocks, and every visuals block under a timeline that fades "c" and "d"
LessonScripts ==
  {Lesson(v, tl) : v \in LessonVisuals, tl \in TimelineTexts}
    \cup {Lesson(v, tl) : v \in VisualsTexts, tl \in {<<>>, <<HideBoth>>}}

HideC == [time |-> Lit0,
          animations |-> << [target |-> "c", direction |-> "out", duration |-> Lit0] >>]

PropertyTexts ==
  {DurationText(Lit5), DurationText(Lit1p5), NarrationText("Hello"),
   VisualsText(<<>>), VisualsText(<<CircleC>>),
   TimelineText(<<>>), TimelineText(<<HideC>>)}

\* scripts whose scene holds any properties in any order, or none
PropertyScripts == {OneScene("s", props) : props \in SeqUpTo(PropertyTexts, MaxProps)}

\* scene blocks: two with the same title and different bodies, one with another title,
\* and one without any property, which the grammar rejects
SceneTexts ==
  {[title |-> "Introduction",
    props |-> <<DurationText(Lit5), VisualsText(<<CircleC>>), TimelineText(<<HideC>>)>>],
   [title |-> "Introduction",
    props |-> <<DurationText(Lit1p5), VisualsText(<<TextD>>), TimelineText(<<>>)>>],
   [title |-> "Conclusion", props |-> <<DurationText(Lit5)>>],
   [title |-> "Empty", props |-> <<>>]}

\* scripts of up to MaxScenes scene blocks, in every order and with repeats
SceneScripts ==
  {[video |-> VideoText, scenes |-> blocks] : blocks \in SeqUpTo(SceneTexts, MaxScenes)}

\* digit strings an Integer matches: zero, a digit, leading zeros, several digits
IntegerTexts == {<<0>>, <<1>>, <<0, 0>>, <<0, 7>>, <<7, 2, 0>>}

\* scripts with every pair of such digit strings as the video dimensions
DimensionScripts ==
  {[video |-> [w |-> w, h |-> h],
    scenes |-> << [title |-> "s", props |-> <<DurationText(Lit5)>>] >>] :
     w \in IntegerTexts, h \in IntegerTexts}

\* scripts whose scene duration and fade duration are literals with or without the
\* minus sign a Number accepts; the fade is declared at 2s
SignedScripts ==
  {OneScene("s",
     <<DurationText(d), VisualsText(<<CircleC>>),
       TimelineText(<< [time |-> Lit2,
                        animations |-> << [target |-> "c", direction |-> dir,
                                           duration |-> fd] >>] >>)>>) :
     d \in {Lit5, LitMinus1}, dir \in {"in", "out"}, fd \in {Lit1, LitMinus1}}

Scripts ==
  LessonScripts \cup PropertyScripts \cup SceneScripts \cup DimensionScripts
    \cup SignedScripts

\* i / fps * 1000 for fps = 30 and the frames i = 0, 30, 45, 90
SampleTimesMs == {0, 1000, 1500, 3000}

(***************************************************************************)
(* The build handler (src/index.ts).                                       *)
(***************************************************************************)
NoScript == [video |-> [w |-> <<>>, h |-> <<>>], scenes |-> <<>>]

NoAst == [type |-> "none", video |-> NoVideo, scenes |-> <<>>]

NoCall == [scene |-> 0, timeMs |-> 0, status |-> "none", frame |-> <<>>]

Init ==
  /\ pc = "start"
  /\ scriptContent = NoScript
  /\ ast = NoAst
  /\ call = NoCall
  /\ error = NoError
  /\ jobs = <<>>
  /\ finished = <<>>
  /\ clipPaths = <<>>
  /\ files = {}
  /\ heap = <<>>
  /\ log = <<>>

\* ReadAndParseFrom without process.exit(1) in the catch
ReadAndParseFrom_continue(scripts) ==
  /\ pc = "start"
  /\ \E s \in scripts :
       /\ scriptContent' = s
       /\ ast' = parse(s)
       /\ error' = IF parse(s).type = "Program" THEN NoError ELSE ParserError(s)
       /\ pc' = "parsed"
  /\ UNCHANGED <<call, jobs, buildVars, heap, log>>

\* index.ts 42-57: read the script and parse it; a parse error ends the build
ReadAndParseFrom(scripts) ==
  /\ pc = "start"
  /\ \E s \in scripts :
       /\ scriptContent' = s
       /\ ast' = parse(s)
       /\ error' = IF parse(s).type = "Program" THEN NoError ELSE ParserError(s)
       /\ pc' = IF parse(s).type = "Program" THEN "parsed" ELSE "exit1"
  /\ UNCHANGED <<call, jobs, buildVars, heap, log>>

ReadAndParse == ReadAndParseFrom(Scripts)

\* one call calculateFrameState(scene, timeMs) on a scene of the parsed program
CalculateFrameState ==
  /\ pc = "parsed"
  /\ \E i \in 1..Len(ast.scenes), timeMs \in SampleTimesMs :
       LET result == calculateFrameState(ast.scenes[i], timeMs)
       IN  /\ call' = [scene |-> i, timeMs |-> timeMs,
                       status |-> result.status, frame |-> result.frame]
           /\ ast' = [ast EXCEPT !.scenes[i] = SceneAfter(ast.scenes[i], timeMs)]
  /\ UNCHANGED <<pc, scriptContent, error, jobs, buildVars, heap, log>>

Next == ReadAndParse \/ CalculateFrameState

Spec == Init /\ [][Next]_vars

TypeOK ==
  /\ pc \in {"start", "parsed", "exit1", "processing", "concatenating", "finished", "done"}
  /\ ast.type \in {"none", "Program", "SyntaxError"}
  /\ call.status \in {"none", "return", "throw"}

(***************************************************************************)
(* Vocabulary of the properties.                                           *)
(***************************************************************************)
CallMade == call.status # "none"

CallScene == ast.scenes[call.scene]

\* a scene as the Scene interface of parser.d.ts declares it: visuals and timeline are arrays
IsScene(scene) == scene.visuals # <<>> /\ scene.timeline # <<>>

CallVisuals == CallScene.visuals[1]

CallTimeline == CallScene.timeline[1]

\* the sample time in seconds
CallSeconds == Norm(call.timeMs, 1000)

Zero == Num(0)

One == Num(1)

Half == Norm(1, 2)

\* the commands of a timeline in declaration order, each with its event
RECURSIVE Flat(_)
Flat(events) ==
  IF events = <<>> THEN <<>>
  ELSE [k \in 1..Len(Head(events).animations) |->
          [event |-> Head(events), anim |-> Head(events).animations[k]]]
       \o Flat(Tail(events))

CallFlat == Flat(CallTimeline)

\* element i is the one the id resolves to: the first declared with that id
Resolves(visuals, id, i) ==
  visuals[i].id = id /\ \A j \in 1..(i - 1) : visuals[j].id # id

Declared(visuals, id) == \E k \in 1..Len(visuals) : visuals[k].id = id

EndOf(c) == NumAdd(c.event.time, c.anim.duration)

\* what one command alone writes: it is applied to states whose opacity is a marker
Marker == Num(-1)

Alone(visuals, c, timeS) ==
  ApplyFade([k \in 1..Len(visuals) |-> [InitialState(visuals[k]) EXCEPT !.opacity = Marker]],
            c.event, c.anim, timeS)

Writes(visuals, c, i, timeS) == Alone(visuals, c, timeS)[i].opacity # Marker

Written(visuals, c, i, timeS) == Alone(visuals, c, timeS)[i].opacity

\* the last command in declaration order that writes the opacity of element i, 0 if none
LastWriter(visuals, flat, i, timeS) ==
  IF \E j \in 1..Len(flat) : Writes(visuals, flat[j], i, timeS)
  THEN CHOOSE j \in 1..Len(flat) :
         /\ Writes(visuals, flat[j], i, timeS)
         /\ \A k \in (j + 1)..Len(flat) : ~Writes(visuals, flat[k], i, timeS)
  ELSE 0

RemoveAt(seq, k) == SubSeq(seq, 1, k - 1) \o SubSeq(seq, k + 1, Len(seq))

\* the scene without the a-th command of its e-th event
WithoutCommand(scene, e, a) ==
  [scene EXCEPT !.timeline =
     << [scene.timeline[1] EXCEPT ![e].animations = RemoveAt(scene.timeline[1][e].animations, a)] >>]

(***************************************************************************)
(* Properties of calculateFrameState.                                      *)
(***************************************************************************)
\* C1: the frame state has one entry per visual element of the scene, in the declared
\* order, and each entry carries the element's id, type, content/radius and anchor
\* position unchanged, whatever the timeline does.
C1_FrameMirrorsVisuals ==
  (CallMade /\ IsScene(CallScene)) =>
    /\ call.status = "return"
    /\ Len(call.frame) = Len(CallVisuals)
    /\ \A k \in 1..Len(CallVisuals) :
         /\ call.frame[k].id = CallVisuals[k].id
         /\ call.frame[k].type = CallVisuals[k].type
         /\ call.frame[k].content = CallVisuals[k].content
         /\ call.frame[k].radius = CallVisuals[k].radius
         /\ call.frame[k].x = CallVisuals[k].at.x
         /\ call.frame[k].y = CallVisuals[k].at.y

C1_Witness ==
  /\ call.status = "return"
  /\ Len(call.frame) = 2
  /\ call.frame[1].type = "text" /\ call.frame[2].type = "circle"
  /\ call.frame[1].x # call.frame[1].y
  /\ call.frame[1].opacity # One /\ call.frame[2].opacity # One

AllDurationsNonNegative(scene) ==
  /\ scene.duration # <<>> => NumGe(scene.duration[1], Zero)
  /\ \A c \in {Flat(scene.timeline[1])[j] : j \in 1..Len(Flat(scene.timeline[1]))} :
       NumGe(c.anim.duration, Zero)

\* C2: when every duration of the scene is >= 0 and t >= 0, every returned opacity is
\* a number in [0, 1].
C2_OpacityInUnitRange ==
  (call.status = "return" /\ AllDurationsNonNegative(CallScene) /\ call.timeMs >= 0) =>
    \A k \in 1..Len(call.frame) :
      NumGe(call.frame[k].opacity, Zero) /\ NumLe(call.frame[k].opacity, One)

\* C3: the opacity of an element is the value written by the last command, in
\* declaration order of events and of commands inside an event, that writes it at t
\* (1 when none does); with events declared at 2s then 1s fading the same target,
\* t = 1.5 gives the effect of the event at 1s.
C3_LastDeclaredWins ==
  (CallMade /\ IsScene(CallScene)) =>
    /\ call.status = "return"
    /\ \A i \in 1..Len(CallVisuals) :
         LET w == LastWriter(CallVisuals, CallFlat, i, CallSeconds)
         IN  call.frame[i].opacity =
               IF w = 0 THEN One ELSE Written(CallVisuals, CallFlat[w], i, CallSeconds)
    /\ \A i \in 1..Len(CallVisuals) :
         ( /\ Len(CallTimeline) = 2
           /\ Len(CallTimeline[1].animations) = 1 /\ Len(CallTimeline[2].animations) = 1
           /\ CallTimeline[1].time = Num(2) /\ CallTimeline[2].time = Num(1)
           /\ Resolves(CallVisuals, CallFlat[1].anim.target, i)
           /\ Resolves(CallVisuals, CallFlat[2].anim.target, i)
           /\ call.timeMs = 1500 )
         => call.frame[i].opacity = Written(CallVisuals, CallFlat[2], i, CallSeconds)

C3_Witness ==
  /\ call.status = "return"
  /\ \E i \in 1..Len(CallVisuals) : \E j \in 1..Len(CallFlat) : \E k \in 1..Len(CallFlat) :
       /\ j < k
       /\ NumGt(CallFlat[j].event.time, CallFlat[k].event.time)
       /\ Writes(CallVisuals, CallFlat[j], i, CallSeconds)
       /\ Writes(CallVisuals, CallFlat[k], i, CallSeconds)
       /\ Written(CallVisuals, CallFlat[j], i, CallSeconds)
            # Written(CallVisuals, CallFlat[k], i, CallSeconds)
       /\ call.frame[i].opacity = Written(CallVisuals, CallFlat[k], i, CallSeconds)

\* command j is the last declared command whose target resolves to element i
LastOnTarget(j, i) ==
  /\ Resolves(CallVisuals, CallFlat[j].anim.target, i)
  /\ \A k \in (j + 1)..Len(CallFlat) : ~Resolves(CallVisuals, CallFlat[k].anim.target, i)

\* C4: a fade of duration > 0 that is the last declared command on its target leaves
\* the target at opacity 1 (in) or 0 (out) at every t >= start + dur, t = start + dur
\* included.
C4_ClampedAfterEnd ==
  (CallMade /\ IsScene(CallScene)) =>
    \A j \in 1..Len(CallFlat) : \A i \in 1..Len(CallVisuals) :
      ( /\ LastOnTarget(j, i)
        /\ NumGt(CallFlat[j].anim.duration, Zero)
        /\ NumGe(CallSeconds, EndOf(CallFlat[j])) )
      => /\ call.status = "return"
         /\ call.frame[i].opacity = IF CallFlat[j].anim.direction = "in" THEN One ELSE Zero

C4_Witness ==
  /\ call.status = "return"
  /\ \E j \in 1..Len(CallFlat) : \E i \in 1..Len(CallVisuals) :
       /\ LastOnTarget(j, i)
       /\ j > 1
       /\ CallFlat[j].anim.direction = "out"
       /\ NumGt(CallFlat[j].anim.duration, Zero)
       /\ CallSeconds = EndOf(CallFlat[j])
       /\ call.frame[i].opacity = Zero

\* C5: a fade-out of duration 0 puts its target at opacity 0 at every t >= start
\* unless a later-declared command writes the target at t; declared at time 0 with no
\* later command on the target, the target is at 0 at every t >= 0.
C5_InstantHide ==
  (CallMade /\ IsScene(CallScene)) =>
    \A j \in 1..Len(CallFlat) : \A i \in 1..Len(CallVisuals) :
      ( /\ Resolves(CallVisuals, CallFlat[j].anim.target, i)
        /\ CallFlat[j].anim.direction = "out"
        /\ CallFlat[j].anim.duration = Zero )
      => /\ ( /\ NumGe(CallSeconds, CallFlat[j].event.time)
              /\ \A k \in (j + 1)..Len(CallFlat) :
                   ~Writes(CallVisuals, CallFlat[k], i, CallSeconds) )
            => (call.status = "return" /\ call.frame[i].opacity = Zero)
         /\ (CallFlat[j].event.time = Zero /\ LastOnTarget(j, i))
            => (call.status = "return" /\ call.frame[i].opacity = Zero)

C5_Witness ==
  /\ call.status = "return"
  /\ \E j \in 1..Len(CallFlat) : \E i \in 1..Len(CallVisuals) :
       /\ Resolves(CallVisuals, CallFlat[j].anim.target, i)
       /\ CallFlat[j].anim.direction = "out"
       /\ CallFlat[j].anim.duration = Zero
       /\ CallSeconds = CallFlat[j].event.time
       /\ NumGt(CallSeconds, Zero)
       /\ j < Len(CallFlat)
       /\ Resolves(CallVisuals, CallFlat[j + 1].anim.target, i)
       /\ ~Writes(CallVisuals, CallFlat[j + 1], i, CallSeconds)
       /\ call.frame[i].opacity = Zero
       /\ \E o \in 1..Len(CallVisuals) : call.frame[o].opacity = One

\* the interpolated opacity of command c at timeS
Interpolated(c, timeS) ==
  LET progress == NumDiv(NumSub(timeS, c.event.time), c.anim.duration)
  IN  IF c.anim.direction = "in" THEN progress ELSE NumSub(One, progress)

\* command j is the last command that writes element i at the sample time, and the
\* sample time lies in [start, start + dur]
InsideWindow(j, i) ==
  /\ Resolves(CallVisuals, CallFlat[j].anim.target, i)
  /\ LastWriter(CallVisuals, CallFlat, i, CallSeconds) = j
  /\ NumLe(CallFlat[j].event.time, CallSeconds)
  /\ NumLe(CallSeconds, EndOf(CallFlat[j]))

\* C6 as stated: for a fade of any duration that is the last matching command on its
\* target, at start <= t <= start + dur the opacity is (t - start)/dur for in and
\* 1 - (t - start)/dur for out.
C6_InterpolatesAnyDuration ==
  (call.status = "return") =>
    \A j \in 1..Len(CallFlat) : \A i \in 1..Len(CallVisuals) :
      InsideWindow(j, i) => call.frame[i].opacity = Interpolated(CallFlat[j], CallSeconds)

\* C6 amended: for a fade of duration > 0 that is the last matching command on its
\* target, at start <= t <= start + dur the opacity is (t - start)/dur for in and
\* 1 - (t - start)/dur for out.
C6_Interpolates ==
  (CallMade /\ IsScene(CallScene)) =>
    \A j \in 1..Len(CallFlat) : \A i \in 1..Len(CallVisuals) :
      (InsideWindow(j, i) /\ NumGt(CallFlat[j].anim.duration, Zero))
      => /\ call.status = "return"
         /\ call.frame[i].opacity = Interpolated(CallFlat[j], CallSeconds)

C6_Witness ==
  /\ call.status = "return"
  /\ \E j \in 1..Len(CallFlat) : \E i \in 1..Len(CallVisuals) :
       /\ InsideWindow(j, i)
       /\ CallFlat[j].anim.duration = Num(2)
       /\ CallFlat[j].event.time = One
       /\ call.frame[i].opacity = Norm(3, 4)

\* scene "Introduction" { duration: 5s  visuals { circle(id: "c", ...) }
\*   timeline { at(0s) { fade("c", out, duration: 0s) } at(1s) { fade("c", in, duration: 1s) } } }
EndToEndScript ==
  OneScene("Introduction",
    <<DurationText(Lit5), VisualsText(<<CircleC>>),
      TimelineText(<<HideC,
                     [time |-> Lit1,
                      animations |-> << [target |-> "c", direction |-> "in",
                                         duration |-> Lit1] >>]>>)>>)

\* C7: in the end-to-end scene (one circle "c", fade out 0s at 0s, fade in 1s at 1s) the
\* opacity of "c" is 0 at t = 0, 0.5 at t = 1.5 and 1 at t = 3.
C7_EndToEnd ==
  (CallMade /\ scriptContent = EndToEndScript) =>
    /\ call.status = "return"
    /\ Len(call.frame) = 1
    /\ call.frame[1].id = "c"
    /\ call.timeMs = 0 => call.frame[1].opacity = Zero
    /\ call.timeMs = 1500 => call.frame[1].opacity = Half
    /\ call.timeMs = 3000 => call.frame[1].opacity = One

C7_Witness ==
  /\ scriptContent = EndToEndScript
  /\ call.status = "return"
  /\ call.timeMs = 1500
  /\ call.frame[1].opacity = Half

\* C8: a fade whose target is no declared visual id raises no error and changes no
\* opacity: the frame state is the one of the scene without that command.
C8_MissingTargetIsNoOp ==
  (CallMade /\ IsScene(CallScene)) =>
    \A e \in 1..Len(CallTimeline) : \A a \in 1..Len(CallTimeline[e].animations) :
      ~Declared(CallVisuals, CallTimeline[e].animations[a].target)
      => /\ call.status = "return"
         /\ call.frame = calculateFrameState(WithoutCommand(CallScene, e, a), call.timeMs).frame

C8_Witness ==
  /\ call.status = "return"
  /\ Len(call.frame) >= 1
  /\ \E e \in 1..Len(CallTimeline) : \E a \in 1..Len(CallTimeline[e].animations) :
       /\ ~Declared(CallVisuals, CallTimeline[e].animations[a].target)
       /\ CallTimeline[e].animations[a].direction = "out"
       /\ NumGt(CallSeconds, CallTimeline[e].time)
  /\ \A k \in 1..Len(call.frame) : call.frame[k].opacity = One

\* C9: calculateFrameState returns a frame state for every scene of a parsed program,
\* scenes without a visuals block or without a timeline block included.
C9_EvaluatorTotal == CallMade => call.status = "return"

HasDurationProperty(block) == \E k \in 1..Len(block.props) : block.props[k].kw = "duration"

\* C10: a script with a scene block that holds no duration property is rejected with a
\* syntax error, and every scene of a parsed program has a duration.
C10_DurationRequired ==
  (pc # "start") =>
    /\ (\E k \in 1..Len(scriptContent.scenes) : ~HasDurationProperty(scriptContent.scenes[k]))
         => ast.type = "SyntaxError"
    /\ ast.type = "Program" => \A k \in 1..Len(ast.scenes) : ast.scenes[k].duration # <<>>

\* the frame state of the call's scene without the a-th command of its e-th event
FrameWithout(e, a) == calculateFrameState(WithoutCommand(CallScene, e, a), call.timeMs).frame

\* element k is the last declared element with the id
LastDeclared(visuals, id, k) ==
  visuals[k].id = id /\ \A j \in (k + 1)..Len(visuals) : visuals[j].id # id

SharedId(visuals, id) == Cardinality({k \in 1..Len(visuals) : visuals[k].id = id}) >= 2

\* C11 as stated: when several elements share an id, a fade of that id changes the
\* opacity of the last declared of them only.
C11_LastDeclaredWins ==
  (call.status = "return") =>
    \A e \in 1..Len(CallTimeline) : \A a \in 1..Len(CallTimeline[e].animations) :
      \A k \in 1..Len(CallVisuals) :
        ( /\ SharedId(CallVisuals, CallTimeline[e].animations[a].target)
          /\ ~LastDeclared(CallVisuals, CallTimeline[e].animations[a].target, k) )
        => call.frame[k].opacity = FrameWithout(e, a)[k].opacity

\* C11 amended: when several elements share an id, a fade of that id changes the
\* opacity of the first declared of them only; an element whose opacity is not the
\* baseline 1 is the first declared with the id of some command.
C11_FirstDeclaredWins ==
  (call.status = "return") =>
    /\ \A e \in 1..Len(CallTimeline) : \A a \in 1..Len(CallTimeline[e].animations) :
         \A k \in 1..Len(CallVisuals) :
           ~Resolves(CallVisuals, CallTimeline[e].animations[a].target, k)
           => call.frame[k].opacity = FrameWithout(e, a)[k].opacity
    /\ \A k \in 1..Len(CallVisuals) :
         call.frame[k].opacity # One
         => \E j \in 1..Len(CallFlat) : Resolves(CallVisuals, CallFlat[j].anim.target, k)

C11_Witness ==
  /\ call.status = "return"
  /\ Len(call.frame) = 2
  /\ call.frame[1].id = call.frame[2].id
  /\ call.frame[1].opacity = Zero
  /\ call.frame[2].opacity = One
  /\ Len(CallFlat) >= 1

Keywords == {"duration", "narration", "visuals", "timeline"}

Parsed == pc = "parsed" /\ ast.type = "Program"

\* the positions of the keyword among the properties of a scene block
Occurrences(block, kw) == {j \in 1..Len(block.props) : block.props[j].kw = kw}

LastOccurrence(block, kw) ==
  CHOOSE j \in Occurrences(block, kw) : \A i \in Occurrences(block, kw) : i <= j

\* C12: scene properties are accepted in any order and any number of times; each
\* property of the parsed scene has the value of the last occurrence of its keyword
\* (absent when the keyword does not occur), whatever the other properties are.
C12_LastOccurrenceWins ==
  (pc # "start") =>
    /\ ( /\ Len(scriptContent.scenes) >= 1
         /\ \A k \in 1..Len(scriptContent.scenes) : Len(scriptContent.scenes[k].props) >= 1 )
       => ast.type = "Program"
    /\ (ast.type = "Program") =>
         \A k \in 1..Len(scriptContent.scenes) : \A kw \in Keywords :
           ast.scenes[k][kw] =
             IF Occurrences(scriptContent.scenes[k], kw) = {} THEN <<>>
             ELSE SceneProperties(scriptContent.scenes[k].props[
                    LastOccurrence(scriptContent.scenes[k], kw)])[kw]

C12_Witness ==
  /\ Parsed
  /\ Len(scriptContent.scenes[1].props) = 3
  /\ scriptContent.scenes[1].props[1].kw = "timeline"
  /\ scriptContent.scenes[1].props[2] = DurationText(Lit5)
  /\ scriptContent.scenes[1].props[3] = DurationText(Lit1p5)
  /\ ast.scenes[1].duration = <<Number(Lit1p5)>>
  /\ ast.scenes[1].timeline # <<>>

\* the script matches the grammar: at least one scene block, each with a property
ValidScript ==
  /\ Len(scriptContent.scenes) >= 1
  /\ \A k \in 1..Len(scriptContent.scenes) : Len(scriptContent.scenes[k].props) >= 1

\* C13: a valid script with N scene blocks parses to a Program with exactly N
\* scenes, the i-th being the i-th scene block, also when titles repeat.
C13_ScenesInDeclarationOrder ==
  (pc # "start" /\ ValidScript) =>
    /\ ast.type = "Program"
    /\ Len(ast.scenes) = Len(scriptContent.scenes)
    /\ \A i \in 1..Len(scriptContent.scenes) :
         /\ ast.scenes[i].title = scriptContent.scenes[i].title
         /\ \A kw \in Keywords :
              ast.scenes[i][kw] = Reduce(scriptContent.scenes[i].props, EmptyObject)[kw]

C13_Witness ==
  /\ Parsed
  /\ Len(ast.scenes) = 2
  /\ ast.scenes[1].title = ast.scenes[2].title
  /\ ast.scenes[1].duration = <<Number(Lit1p5)>>
  /\ ast.scenes[2].duration = <<Number(Lit5)>>

\* C14: every parsed Program has a width and a height that are integers >= 1.
C14_DimensionsPositive ==
  Parsed =>
    /\ ast.video.dimensions.width \in Nat \ {0}
    /\ ast.video.dimensions.height \in Nat \ {0}

NonOpacity(state) == [state EXCEPT !.opacity = Zero]

\* C18: a fade command changes at most the opacity of the one element its target
\* resolves to: compared with the same scene without the command, every other
\* element has the same opacity and every element has the same other fields.
C18_FadeTouchesOneOpacity ==
  (call.status = "return") =>
    \A e \in 1..Len(CallTimeline) : \A a \in 1..Len(CallTimeline[e].animations) :
      /\ Len(FrameWithout(e, a)) = Len(call.frame)
      /\ \A k \in 1..Len(call.frame) :
           /\ NonOpacity(call.frame[k]) = NonOpacity(FrameWithout(e, a)[k])
           /\ ~Resolves(CallVisuals, CallTimeline[e].animations[a].target, k)
              => call.frame[k].opacity = FrameWithout(e, a)[k].opacity

C18_Witness ==
  /\ call.status = "return"
  /\ Len(call.frame) = 2
  /\ call.frame[1].id # call.frame[2].id
  /\ Len(CallFlat) = 1
  /\ Resolves(CallVisuals, CallFlat[1].anim.target, 2)
  /\ call.frame[2].opacity = Zero
  /\ call.frame[1].opacity = One

\* command j of the timeline has a duration >= 0 and an event time after t
NotYetStarted(j) ==
  /\ NumGe(CallFlat[j].anim.duration, Zero)
  /\ NumGt(CallFlat[j].event.time, CallSeconds)

\* the position in CallFlat of the a-th command of the e-th event
FlatIndex(e, a) == Len(Flat(SubSeq(CallTimeline, 1, e - 1))) + a

\* C19: a fade command with duration >= 0 whose event time is after t changes
\* nothing: the frame is the one of the scene without the command; an element all
\* of whose fade commands are such commands has opacity 1 at t.
C19_NoChangeBeforeStart ==
  (call.status = "return") =>
    /\ \A e \in 1..Len(CallTimeline) : \A a \in 1..Len(CallTimeline[e].animations) :
         NotYetStarted(FlatIndex(e, a)) => call.frame = FrameWithout(e, a)
    /\ \A k \in 1..Len(CallVisuals) :
         (\A j \in 1..Len(CallFlat) :
            Resolves(CallVisuals, CallFlat[j].anim.target, k) => NotYetStarted(j))
         => call.frame[k].opacity = One

C19_Witness ==
  /\ call.status = "return"
  /\ Len(CallFlat) = 2
  /\ ~NotYetStarted(1) /\ NotYetStarted(2)
  /\ CallFlat[1].anim.target = CallFlat[2].anim.target
  /\ CallFlat[2].anim.direction = "in"
  /\ \E k \in 1..Len(CallVisuals) :
       /\ Resolves(CallVisuals, CallFlat[1].anim.target, k)
       /\ call.frame[k].opacity = Zero

\* C19, second part: every fade of the circle starts after t and the circle is opaque
C19_WitnessAllLater ==
  /\ call.status = "return"
  /\ Len(CallFlat) >= 1
  /\ \A j \in 1..Len(CallFlat) : NotYetStarted(j)
  /\ \E k \in 1..Len(CallVisuals) :
       /\ \E j \in 1..Len(CallFlat) : Resolves(CallVisuals, CallFlat[j].anim.target, k)
       /\ call.frame[k].opacity = One

(***************************************************************************)
(* Evaluations whose frame states the caller keeps.  heap is the store of  *)
(* the ElementState objects created so far, an object being its index;     *)
(* log lists the calls with the objects each one returned and what they    *)
(* held on return.                                                         *)
(***************************************************************************)
\* NewObjects handing out the same objects on every call
NewObjects_reused(store, n) == [k \in 1..n |-> k]

\* frameState.push({...}): every entry is an object created by the literal
NewObjects(store, n) == [k \in 1..n |-> Len(store) + k]

\* the store after the objects refs are given the states of frameState
Store(store, refs, frameState) ==
  LET last == IF \E k \in 1..Len(refs) : refs[k] > Len(store)
              THEN CHOOSE r \in {refs[k] : k \in 1..Len(refs)} :
                     \A k \in 1..Len(refs) : refs[k] <= r
              ELSE Len(store)
  IN  [r \in 1..last |->
         IF \E k \in 1..Len(refs) : refs[k] = r
         THEN frameState[CHOOSE k \in 1..Len(refs) : refs[k] = r]
         ELSE store[r]]

\* a script of two scenes, and one whose two elements share an id
KeptScripts ==
  {[video |-> VideoText,
    scenes |-> << [title |-> "Introduction",
                   props |-> <<DurationText(Lit5), VisualsText(<<TextD, CircleC>>),
                               TimelineText(<<HideBoth>>)>>],
                  [title |-> "Conclusion",
                   props |-> <<DurationText(Lit5), VisualsText(<<CircleC>>),
                               TimelineText(<<HideC>>)>>] >>],
   Lesson(<<TextC, CircleC>>, <<HideBoth>>)}

\* i / fps * 1000 for the frames i = 0 and 45
KeptTimesMs == {0, 1500}

ReadAndParseKept == ReadAndParseFrom(KeptScripts)

\* a call of calculateFrameState whose result the caller holds on to
CalculateAndKeep ==
  /\ pc = "parsed"
  /\ Len(log) < MaxCalls
  /\ \E i \in 1..Len(ast.scenes), timeMs \in KeptTimesMs :
       LET result == calculateFrameState(ast.scenes[i], timeMs)
           refs == NewObjects(heap, Len(result.frame))
       IN  /\ call' = [scene |-> i, timeMs |-> timeMs,
                       status |-> result.status, frame |-> result.frame]
           /\ ast' = [ast EXCEPT !.scenes[i] = SceneAfter(ast.scenes[i], timeMs)]
           /\ heap' = Store(heap, refs, result.frame)
           /\ log' = Append(log, [scene |-> i, timeMs |-> timeMs, status |-> result.status,
                                  refs |-> refs, frame |-> result.frame])
  /\ UNCHANGED <<pc, scriptContent, error, jobs, buildVars>>

\* the caller assigns the opacity of a state it was returned
SetOpacity ==
  /\ \E r \in 1..Len(heap) :
       /\ heap[r].opacity # Half
       /\ heap' = [heap EXCEPT ![r].opacity = Half]
  /\ UNCHANGED <<pc, scriptContent, ast, error, call, jobs, buildVars, log>>

NextKept == ReadAndParseKept \/ CalculateAndKeep \/ SetOpacity

SpecKept == Init /\ [][NextKept]_vars

\* the objects call c returned, and what they hold now
Objects(c) == {log[c].refs[k] : k \in 1..Len(log[c].refs)}

Contents(c) == [k \in 1..Len(log[c].refs) |-> heap[log[c].refs[k]]]

Fps == 30

\* scene.duration in arithmetic: undefined converts to NaN
ToNumber(optional) == IF optional = <<>> THEN NaN ELSE optional[1]

\* const totalFrames = Math.floor(scene.duration * fps)
TotalFrames(scene, fps) == MathFloor(NumMul(ToNumber(scene.duration), Num(fps)))

\* const timeMs = (i / fps) * 1000
TimeMs(i, fps) == NumMul(NumDiv(Num(i), Num(fps)), Num(1000))

\* scene blocks of 0.1s and 0.05s, and one without a property, which the grammar rejects
BuildSceneTexts ==
  {[title |-> "Introduction",
    props |-> <<DurationText(Lit(FALSE, <<0>>, <<1>>)), VisualsText(<<CircleC>>),
                TimelineText(<<HideC>>)>>],
   [title |-> "Conclusion",
    props |-> <<DurationText(Lit(FALSE, <<0>>, <<0, 5>>)), VisualsText(<<>>),
                TimelineText(<<>>)>>],
   [title |-> "Empty", props |-> <<>>]}

BuildScripts ==
  {[video |-> VideoText, scenes |-> blocks] : blocks \in SeqUpTo(BuildSceneTexts, MaxScenes)}

\* lengths getAudioDurationInSeconds may report: 0.05s and 0.2s
AudioDurations == {Norm(1, 20), Norm(1, 5)}

\* String(i), as in `scene_${sceneIndex}`: the decimal digits of a number
DigitChars == <<"0", "1", "2", "3", "4", "5", "6", "7", "8", "9">>

RECURSIVE String(_)
String(i) ==
  IF i < 10 THEN <<DigitChars[i + 1]>>
  ELSE String(i \div 10) \o <<DigitChars[(i % 10) + 1]>>

\* str.padStart(n, ch)
PadStart(str, n, ch) ==
  IF Len(str) >= n THEN str ELSE [k \in 1..(n - Len(str)) |-> ch] \o str

\* path.join(dir, name); a path is the sequence of its pieces
Join(dir, name) == dir \o <<"/">> \o name

OutputDir == <<"temp">>

\* SceneFrameDir naming one directory for every scene
SceneFrameDir_shared(sceneIndex) == Join(OutputDir, <<"scene_frames">>)

\* index.ts 94-96, with sceneIndex = index + 1
SceneFrameDir(sceneIndex) ==
  Join(OutputDir, <<"scene_">> \o String(sceneIndex) \o <<"_frames">>)

SceneClipPath(sceneIndex) ==
  Join(OutputDir, <<"clip_">> \o String(sceneIndex) \o <<".mp4">>)

\* renderer.ts 184-185: frame_<i padded to five digits>.png in the frame directory
FramePath(outputDir, i) ==
  Join(outputDir, <<"frame_">> \o PadStart(String(i), 5, "0") \o <<".png">>)

FileWritten(path, j, kind, i) == [path |-> path, scene |-> j, kind |-> kind, index |-> i]

SkippedJob ==
  [pc |-> "skipped", audioExists |-> FALSE, audioDuration |-> <<>>,
   finalClipDuration |-> <<>>, totalFrames |-> <<>>, frames |-> <<>>, clip |-> <<>>]

MeasuringJob == [SkippedJob EXCEPT !.pc = "measuring", !.audioExists = TRUE]

\* StartJob without the test of fs.existsSync(sceneAudioPath)
StartJob_unchecked(exists) == [MeasuringJob EXCEPT !.audioExists = exists]

\* index.ts 98-103: processScene up to its first await
StartJob(exists) == IF exists THEN MeasuringJob ELSE SkippedJob

\* Promise.all waiting for every job to end, as Promise.allSettled does
PromiseAll_settled(js) ==
  IF \A j \in 1..Len(js) : js[j].pc \in {"skipped", "done", "failed"}
  THEN "fulfilled" ELSE "pending"

\* Promise.all over the jobs: rejected with the first job that fails, fulfilled when
\* every job has returned
PromiseAll(js) ==
  IF \E j \in 1..Len(js) : js[j].pc = "failed" THEN "rejected"
  ELSE IF \A j \in 1..Len(js) : js[j].pc \in {"skipped", "done"} THEN "fulfilled"
  ELSE "pending"

\* ProcessedClips listing the results in the order the jobs returned
ProcessedClips_byFinish(js, fin) ==
  [k \in 1..Len(js) |->
     IF k <= Len(fin) /\ js[fin[k]].pc = "done" THEN <<SceneClipPath(fin[k])>> ELSE <<>>]

\* processedClips: the value of each job at the position of its scene, null (<<>>)
\* for a scene that was skipped
ProcessedClips(js, fin) ==
  [j \in 1..Len(js) |-> IF js[j].pc = "done" THEN <<SceneClipPath(j)>> ELSE <<>>]

\* processedClips.filter(p => p !== null)
RECURSIVE FilterClips(_)
FilterClips(processed) ==
  IF processed = <<>> THEN <<>> ELSE Head(processed) \o FilterClips(Tail(processed))

\* index.ts 121-147: what the handler does once the jobs are js: it goes on waiting,
\* exits on a rejection, or filters the clips and calls concatenateClips when there
\* is one
Settle(js, fin) ==
  LET outcome == PromiseAll(js)
      paths == FilterClips(ProcessedClips(js, fin))
  IN  /\ pc' = IF outcome = "pending" THEN "processing"
               ELSE IF outcome = "rejected" THEN "exit1"
               ELSE IF Len(paths) > 0 THEN "concatenating"
               ELSE "finished"
      /\ clipPaths' = IF outcome = "fulfilled" THEN paths ELSE clipPaths

\* exporter.ts 77-80: the lines of temp/concat_list.txt
Normalize(path) == [k \in 1..Len(path) |-> IF path[k] = "\\" THEN "/" ELSE path[k]]

ConcatList(paths) ==
  [k \in 1..Len(paths) |-> <<"file '">> \o Normalize(paths[k]) \o <<"'">>]

ReadAndParseBuild == ReadAndParseFrom(BuildScripts)

\* index.ts 90-101, 121: ast.scenes.map(processScene) runs every call up to its first
\* await; a scene whose audio file is missing returns null
ProcessScenes ==
  /\ pc = "parsed"
  /\ \E exists \in [1..Len(ast.scenes) -> BOOLEAN] :
       LET js == [j \in 1..Len(ast.scenes) |-> StartJob(exists[j])]
           fin == SelectSeq([j \in 1..Len(ast.scenes) |-> j], LAMBDA j : js[j].pc = "skipped")
       IN  /\ jobs' = js
           /\ finished' = fin
           /\ Settle(js, fin)
  /\ UNCHANGED <<scriptContent, ast, error, call, files, heap, log>>

\* index.ts 103-112, renderer.ts 144-159: the audio length arrives, and renderSceneFrames
\* is entered
GetAudioDuration(j) ==
  /\ pc = "processing"
  /\ jobs[j].pc = "measuring"
  /\ \E audioDuration \in AudioDurations :
       jobs' = [jobs EXCEPT ![j] =
                  [pc |-> "rendering", audioExists |-> TRUE,
                   audioDuration |-> <<audioDuration>>,
                   finalClipDuration |->
                     <<MathMax(ToNumber(ast.scenes[j].duration), audioDuration)>>,
                   totalFrames |-> <<TotalFrames(ast.scenes[j], Fps)>>,
                   frames |-> <<>>, clip |-> <<>>]]
  /\ files' = files \cup {FileWritten(SceneFrameDir(j), j, "dir", 0)}
  /\ UNCHANGED <<pc, scriptContent, ast, error, call, finished, clipPaths, heap, log>>

\* renderer.ts 171-188: one iteration of the frame loop
RenderFrame(j) ==
  /\ pc = "processing"
  /\ jobs[j].pc = "rendering"
  /\ NumGt(jobs[j].totalFrames[1], Num(Len(jobs[j].frames)))
  /\ jobs' = [jobs EXCEPT ![j].frames = Append(@, TimeMs(Len(jobs[j].frames), Fps))]
  /\ files' = files \cup {FileWritten(FramePath(SceneFrameDir(j), Len(jobs[j].frames)),
                                  j, "frame", Len(jobs[j].frames))}
  /\ UNCHANGED <<pc, scriptContent, ast, error, call, finished, clipPaths, heap, log>>

\* renderer.ts 171, index.ts 115: the loop ends and exportVideo is called
ExportVideo(j) ==
  /\ pc = "processing"
  /\ jobs[j].pc = "rendering"
  /\ ~NumGt(jobs[j].totalFrames[1], Num(Len(jobs[j].frames)))
  /\ jobs' = [jobs EXCEPT ![j].pc = "exporting"]
  /\ UNCHANGED <<pc, scriptContent, ast, error, call, buildVars, heap, log>>

\* exporter.ts 47-57, index.ts 117: ffmpeg ends and processScene returns the clip path
ClipExported(j) ==
  /\ pc = "processing"
  /\ jobs[j].pc = "exporting"
  /\ jobs' = [jobs EXCEPT ![j].pc = "done",
                          ![j].clip = <<[duration |-> jobs[j].finalClipDuration[1],
                                         frames |-> Len(jobs[j].frames)]>>]
  /\ files' = files \cup {FileWritten(SceneClipPath(j), j, "clip", 0)}
  /\ finished' = Append(finished, j)
  /\ Settle(jobs', finished')
  /\ UNCHANGED <<scriptContent, ast, error, call, heap, log>>

\* the job is rejected: Promise.all rejects and the catch of index.ts 125-128 exits
Reject(j) ==
  /\ jobs' = [jobs EXCEPT ![j].pc = "failed"]
  /\ Settle(jobs', finished)
  /\ UNCHANGED <<scriptContent, ast, error, call, finished, files, heap, log>>

\* renderer.ts 171-188, 204-211: rendering or writing a frame throws; the catch rethrows
RenderFails(j) ==
  /\ pc = "processing"
  /\ jobs[j].pc = "rendering"
  /\ NumGt(jobs[j].totalFrames[1], Num(Len(jobs[j].frames)))
  /\ Reject(j)

\* exporter.ts 48-53: ffmpeg reports an error and exportVideo rejects
ExportFails(j) ==
  /\ pc = "processing"
  /\ jobs[j].pc = "exporting"
  /\ Reject(j)

\* exporter.ts 105-115, index.ts 136-140: the final ffmpeg run ends and output.mp4 is there
ClipsConcatenated ==
  /\ pc = "concatenating"
  /\ pc' = "done"
  /\ UNCHANGED <<scriptContent, ast, error, call, jobs, buildVars, heap, log>>

\* exporter.ts 83-88, 109-113, index.ts 141-144: concatenateClips rejects
ConcatenateFails ==
  /\ pc = "concatenating"
  /\ pc' = "exit1"
  /\ UNCHANGED <<scriptContent, ast, error, call, jobs, buildVars, heap, log>>

NextBuild ==
  \/ ReadAndParseBuild
  \/ ProcessScenes
  \/ \E j \in 1..Len(jobs) : GetAudioDuration(j)
  \/ \E j \in 1..Len(jobs) : RenderFrame(j)
  \/ \E j \in 1..Len(jobs) : ExportVideo(j)
  \/ \E j \in 1..Len(jobs) : ClipExported(j)
  \/ \E j \in 1..Len(jobs) : RenderFails(j)
  \/ \E j \in 1..Len(jobs) : ExportFails(j)
  \/ ClipsConcatenated
  \/ ConcatenateFails

SpecBuild == Init /\ [][NextBuild]_vars

\* the frame loop of job j has ended
Rendered(j) == jobs[j].pc \in {"exporting", "done"}

EffectiveDuration(j) ==
  MathMax(ToNumber(ast.scenes[j].duration), jobs[j].audioDuration[1])

\* C20: when the frame loop of a scene has ended, the frames written are the samples
\* 0, 1/fps, 2/fps, ... of the effective duration, the larger of the declared
\* duration and the audio length: floor(effective duration * fps) of them.
C20_FramesCoverEffectiveDuration ==
  \A j \in 1..Len(jobs) :
    Rendered(j) =>
      /\ Num(Len(jobs[j].frames)) = MathFloor(NumMul(EffectiveDuration(j), Num(Fps)))
      /\ \A k \in 1..Len(jobs[j].frames) :
           jobs[j].frames[k] = NumMul(NumDiv(Num(k - 1), Num(Fps)), Num(1000))

\* the frames written cover the declared duration, whatever the audio length
C20_FramesCoverDeclaredDuration ==
  \A j \in 1..Len(jobs) :
    Rendered(j) =>
      /\ Num(Len(jobs[j].frames)) = MathFloor(NumMul(ToNumber(ast.scenes[j].duration), Num(Fps)))
      /\ \A k \in 1..Len(jobs[j].frames) :
           jobs[j].frames[k] = NumMul(NumDiv(Num(k - 1), Num(Fps)), Num(1000))

(***************************************************************************)
(* Properties of the build.                                                *)
(***************************************************************************)
\* concatenateClips has been called
ConcatenateCalled == clipPaths # <<>>

\* C21: whatever the order the scene jobs return in, the clips handed to
\* concatenateClips are those of the scenes that produced a clip, each once, in the
\* order the scenes are declared, and the concat list file names them in that order.
C21_ClipsInDeclarationOrder ==
  /\ (pc \in {"concatenating", "done"}) => ConcatenateCalled
  /\ ConcatenateCalled =>
       /\ \A j \in 1..Len(jobs) :
            (jobs[j].pc = "done") <=> (\E k \in 1..Len(clipPaths) : clipPaths[k] = SceneClipPath(j))
       /\ \A k \in 1..Len(clipPaths) : \A l \in 1..Len(clipPaths) : \A j1, j2 \in 1..Len(jobs) :
            (k < l /\ clipPaths[k] = SceneClipPath(j1) /\ clipPaths[l] = SceneClipPath(j2))
            => j1 < j2
       /\ Len(clipPaths) = Cardinality({j \in 1..Len(jobs) : jobs[j].pc = "done"})
       /\ Len(ConcatList(clipPaths)) = Len(clipPaths)
       /\ \A k \in 1..Len(clipPaths) :
            ConcatList(clipPaths)[k] = <<"file '">> \o clipPaths[k] \o <<"'">>

\* the second scene returned its clip before the first, and the list has the first
\* scene's clip first
C21_Witness ==
  /\ pc = "concatenating"
  /\ finished = <<2, 1>>
  /\ clipPaths = <<SceneClipPath(1), SceneClipPath(2)>>

\* C22: when the script does not match the grammar, no Program is produced and the
\* error thrown carries a location, start and end, at the first place the text stops
\* matching; the build exits with status 1 and starts no scene job: no frame is
\* rendered, no clip exported, and concatenateClips is not called.
C22_ParseFailureEndsBuild ==
  (pc # "start" /\ ~ValidScript) =>
    /\ ast.type = "SyntaxError"
    /\ ast.scenes = <<>>
    /\ error.location.start \in 1..(Len(scriptContent.scenes) + 1)
    /\ error.location.end >= error.location.start
    /\ \A k \in 1..(error.location.start - 1) : Len(scriptContent.scenes[k].props) >= 1
    /\ (error.location.start <= Len(scriptContent.scenes))
       => scriptContent.scenes[error.location.start].props = <<>>
    /\ pc = "exit1"
    /\ jobs = <<>> /\ finished = <<>> /\ files = {} /\ ~ConcatenateCalled

\* a script whose second scene block is the first that does not match
C22_Witness ==
  /\ pc = "exit1"
  /\ Len(scriptContent.scenes) = 2
  /\ scriptContent.scenes[1].props # <<>>
  /\ scriptContent.scenes[2].props = <<>>
  /\ error.location.start = 2
  /\ ast.type = "SyntaxError"

Failed(j) == jobs[j].pc = "failed"

\* C23: once the frame rendering or the clip export of a scene has failed, the build
\* has exited with status 1 and concatenateClips has not been called, whatever the
\* other scene jobs have completed; as nothing runs after the exit, it never is.
C23_FailureEndsBuild ==
  (\E j \in 1..Len(jobs) : Failed(j)) =>
    /\ pc = "exit1"
    /\ ~ConcatenateCalled

\* the export of the second scene failed after the first scene had produced its clip
C23_Witness ==
  /\ Len(jobs) = 2
  /\ jobs[1].pc = "done" /\ jobs[1].clip # <<>>
  /\ Failed(2) /\ jobs[2].frames # <<>>
  /\ pc = "exit1"
  /\ ~ConcatenateCalled

\* the rendering of the first scene failed while the second was still rendering
C23_WitnessRender ==
  /\ Len(jobs) = 2
  /\ Failed(1) /\ jobs[1].totalFrames # <<>> /\ Len(jobs[1].frames) = 1
  /\ jobs[2].pc = "rendering"
  /\ pc = "exit1"

\* C23, the steps: a step in which a job fails ends the build, and no step follows
\* the exit.
C23_NothingAfterExit ==
  [][(pc = "exit1") => UNCHANGED vars]_vars

\* the handler is past the await of the scene jobs
JobsReturned == pc \in {"concatenating", "done", "finished"}

\* C24: a scene whose audio file is missing is skipped: it has no frame directory,
\* frame or clip and is not in the clip list, while every scene that has its audio
\* is processed to a clip; when no scene produced a clip, concatenateClips is not
\* called and no final video is made.
C24_MissingAudioSkipsScene ==
  /\ \A j \in 1..Len(jobs) :
       ~jobs[j].audioExists =>
         /\ jobs[j].pc = "skipped"
         /\ jobs[j].frames = <<>> /\ jobs[j].clip = <<>>
         /\ \A f \in files : f.scene # j
         /\ \A k \in 1..Len(clipPaths) : clipPaths[k] # SceneClipPath(j)
  /\ JobsReturned => \A j \in 1..Len(jobs) : jobs[j].audioExists => jobs[j].pc = "done"
  /\ (\A j \in 1..Len(jobs) : jobs[j].pc # "done") =>
       (~ConcatenateCalled /\ pc \notin {"concatenating", "done"})

\* the first scene has no audio and the second produced the only clip of the list
C24_Witness ==
  /\ Len(jobs) = 2
  /\ ~jobs[1].audioExists /\ jobs[1].pc = "skipped"
  /\ jobs[2].pc = "done"
  /\ pc = "concatenating"
  /\ clipPaths = <<SceneClipPath(2)>>

\* no scene has its audio: the handler ends without a final video
C24_WitnessNoClip ==
  /\ Len(jobs) = 2
  /\ \A j \in 1..2 : jobs[j].pc = "skipped"
  /\ pc = "finished"
  /\ ~ConcatenateCalled

\* the output paths scene j has written
PathsOf(j) == {f.path : f \in {g \in files : g.scene = j}}

\* C25: no output path is written for two scenes, nor for two files of one scene: the
\* frame directory, each frame file and the clip file of a scene are paths of their
\* own, so a scene job never overwrites what another one, or itself, has written.
C25_OutputPathsDistinct ==
  /\ \A f \in files : \A g \in files :
       (f.path = g.path) => (f.scene = g.scene /\ f.kind = g.kind /\ f.index = g.index)
  /\ \A j \in 1..Len(jobs) :
       Cardinality(PathsOf(j)) =
         (IF jobs[j].totalFrames # <<>> THEN 1 ELSE 0) + Len(jobs[j].frames)
           + (IF jobs[j].clip # <<>> THEN 1 ELSE 0)

\* both scenes have written their directory, their frame 0 and their clip
C25_Witness ==
  /\ Len(jobs) = 2
  /\ \A j \in 1..2 :
       /\ FileWritten(SceneFrameDir(j), j, "dir", 0) \in files
       /\ FileWritten(FramePath(SceneFrameDir(j), 0), j, "frame", 0) \in files
       /\ FileWritten(SceneClipPath(j), j, "clip", 0) \in files
  /\ \E j \in 1..2 : Len(jobs[j].frames) = 3
  /\ FramePath(SceneFrameDir(1), 0) # FramePath(SceneFrameDir(2), 0)

====
